---- MODULE Spec2Model ----
(***************************************************************************)
(* Model of scripts/check-resources.py: one run of the manifest checker.   *)
(* A run reads the filesystem (fs), parses the manifest document, walks    *)
(* the `file` elements found by root.findall('.//file'), tests one path    *)
(* per element that has text, and leaves with an exit code.                *)
(*                                                                         *)
(* Text is a sequence of characters; a path is a sequence of tokens in     *)
(* which "resources" and "preferences.gresource.xml" stand for the two     *)
(* literal names of the script and every other token is one character.     *)
(* The parsed tree is the sequence of its elements in document order       *)
(* (preorder), each with its tag, its text (None when the element has no   *)
(* text before its first child) and its depth; element 1 is the root.      *)
(***************************************************************************)
EXTENDS Integers, Sequences, FiniteSets, TLC

VARIABLES fs, content, tree, pc, root, elems, missing, checked,
          stdout, stderr, exitCode

vars == <<fs, content, tree, pc, root, elems, missing, checked,
          stdout, stderr, exitCode>>

\* ------------------------------------------------------------------ bounds
\* Largest number of elements of a manifest document.
MaxNodes == 3

\* ------------------------------------------------------- values and inputs
None == <<"None">>

Whitespace == {" "}

Sep == "/"

\* Texts a `file` element carries in the documents explored: whitespace
\* only, plain names, a name padded on both sides, an absolute name.
FileTexts ==
    { <<" ">>, <<"a">>, <<" ", "a", " ">>, <<"b">>, <<"/", "a">> }

\* The (tag, text) pairs of the elements of the documents explored.
NodeOpts ==
    [tag : {"file"}, text : FileTexts \cup {None}]
      \cup [tag : {"gresource"}, text : {None, <<"a">>}]

\* Depths of the elements of an n-element document in document order: the
\* root alone has depth 0 and an element is at most one level below the
\* element before it.
Shapes(n) ==
    { d \in [1..n -> 0..(n - 1)] :
        /\ d[1] = 0
        /\ \A i \in 2..n : d[i] >= 1 /\ d[i] <= d[i - 1] + 1 }

\* ------------------------------------------------------- library functions
\* str.strip() with no argument: drop leading and trailing whitespace.
RECURSIVE LStrip(_)
LStrip(s) ==
    IF s = <<>> THEN s
    ELSE IF Head(s) \in Whitespace THEN LStrip(Tail(s)) ELSE s

RECURSIVE RStrip(_)
RStrip(s) ==
    IF s = <<>> THEN s
    ELSE IF s[Len(s)] \in Whitespace THEN RStrip(SubSeq(s, 1, Len(s) - 1))
    ELSE s

Strip(s) == RStrip(LStrip(s))

\* A join that always appends b to a after a separator.
PathJoin_concat(a, b) == a \o <<Sep>> \o b

\* posixpath.join(a, b): an absolute b replaces a; otherwise b is appended
\* to a, after a separator unless a is empty or already ends with one.
PathJoin(a, b) ==
    IF b # <<>> /\ Head(b) = Sep THEN b
    ELSE IF a = <<>> \/ a[Len(a)] = Sep THEN a \o b
    ELSE a \o <<Sep>> \o b

\* os.path.exists(p): p names something in the filesystem.
Exists(p) == p \in fs

\* print(*args): the arguments separated by one space, as one line.
RECURSIVE PrintLine(_)
PrintLine(args) ==
    IF args = <<>> THEN <<>>
    ELSE IF Len(args) = 1 THEN args[1]
    ELSE args[1] \o <<" ">> \o PrintLine(Tail(args))

\* str(e) for the exception ET.parse raises on the manifest content.
ErrorText(c) ==
    IF c = "malformed" THEN <<"ParseError">> ELSE <<"OSError">>

\* findall('file'): the children of the root only.
FindAll_children(t) ==
    SelectSeq(SubSeq(t, 2, Len(t)),
              LAMBDA e : e.tag = "file" /\ e.depth = 1)

\* root.findall('.//file'): the descendants of the root (the root itself is
\* the context node, never a result) whose tag is `file`, in document order.
FindAll(t) ==
    SelectSeq(SubSeq(t, 2, Len(t)), LAMBDA e : e.tag = "file")

\* ---------------------------------------------------------------- constants
BaseDir == <<"resources">>

XML_PATH == PathJoin(BaseDir, <<"preferences.gresource.xml">>)

\* Paths that may exist in the filesystems explored.
BaseDirPath == BaseDir \o <<Sep>>

FsPaths ==
    { BaseDirPath, XML_PATH,
      BaseDirPath \o <<"a">>, BaseDirPath \o <<"b">>, <<Sep, "a">> }

\* A filesystem holds an entry of the base directory only if the base
\* directory exists.
FsConsistent(f) ==
    \A p \in f :
        (Len(p) > 2 /\ SubSeq(p, 1, 2) = BaseDirPath) => BaseDirPath \in f

\* ------------------------------------------------------------------- state
Init ==
    /\ fs \in { f \in SUBSET FsPaths : FsConsistent(f) }
    /\ content \in {"absent", "ok", "malformed", "unreadable"}
    /\ content = "absent" <=> XML_PATH \notin fs
    /\ IF content = "ok"
       THEN \E n \in 1..MaxNodes :
              \E d \in Shapes(n) :
                \E e \in [1..n -> NodeOpts] :
                  tree = [i \in 1..n |->
                            [tag |-> e[i].tag, text |-> e[i].text,
                             depth |-> d[i]]]
       ELSE tree = <<>>
    /\ pc = "start"
    /\ root = <<>>
    /\ elems = <<>>
    /\ missing = <<>>
    /\ checked = <<>>
    /\ stdout = <<>>
    /\ stderr = <<>>
    /\ exitCode = -1

\* sys.exit(code)
Exit(code) ==
    /\ exitCode' = code
    /\ pc' = "done"

\* CheckManifest creating the manifest it does not find.
CheckManifest_touch ==
    /\ pc = "start"
    /\ IF ~Exists(XML_PATH)
       THEN /\ stderr' = Append(stderr,
                           <<"ERROR: ">> \o XML_PATH \o <<" not found">>)
            /\ fs' = fs \cup {BaseDirPath, XML_PATH}
            /\ Exit(1)
       ELSE /\ pc' = "parse"
            /\ UNCHANGED <<fs, stderr, exitCode>>
    /\ UNCHANGED <<content, tree, root, elems, missing, checked, stdout>>

\* if not os.path.exists(XML_PATH): print(..., file=sys.stderr); sys.exit(1)
CheckManifest ==
    /\ pc = "start"
    /\ IF ~Exists(XML_PATH)
       THEN /\ stderr' = Append(stderr,
                           <<"ERROR: ">> \o XML_PATH \o <<" not found">>)
            /\ Exit(1)
       ELSE /\ pc' = "parse"
            /\ UNCHANGED <<stderr, exitCode>>
    /\ UNCHANGED <<fs, content, tree, root, elems, missing, checked, stdout>>

\* ParseManifest leaving on a parse failure without a diagnostic.
ParseManifest_silent ==
    /\ pc = "parse"
    /\ IF content # "ok"
       THEN /\ Exit(1)
            /\ UNCHANGED <<root, elems, missing, stderr>>
       ELSE /\ root' = tree
            /\ missing' = <<>>
            /\ elems' = FindAll(tree)
            /\ pc' = "loop"
            /\ UNCHANGED <<stderr, exitCode>>
    /\ UNCHANGED <<fs, content, tree, checked, stdout>>

\* ParseManifest swallowing the parse failure and going on with an empty
\* tree.
ParseManifest_swallow ==
    /\ pc = "parse"
    /\ IF content # "ok"
       THEN /\ stderr' = Append(stderr,
                           <<"ERROR: failed to parse ">> \o XML_PATH
                             \o <<": ">> \o ErrorText(content))
            /\ root' = <<>>
            /\ missing' = <<>>
            /\ elems' = <<>>
            /\ pc' = "loop"
            /\ UNCHANGED exitCode
       ELSE /\ root' = tree
            /\ missing' = <<>>
            /\ elems' = FindAll(tree)
            /\ pc' = "loop"
            /\ UNCHANGED <<stderr, exitCode>>
    /\ UNCHANGED <<fs, content, tree, checked, stdout>>

\* try: root = ET.parse(XML_PATH).getroot()
\* except Exception as e: print(..., file=sys.stderr); sys.exit(1)
\* then missing = [] and the evaluation of root.findall('.//file').
ParseManifest ==
    /\ pc = "parse"
    /\ IF content # "ok"
       THEN /\ stderr' = Append(stderr,
                           <<"ERROR: failed to parse ">> \o XML_PATH
                             \o <<": ">> \o ErrorText(content))
            /\ Exit(1)
            /\ UNCHANGED <<root, elems, missing>>
       ELSE /\ root' = tree
            /\ missing' = <<>>
            /\ elems' = FindAll(tree)
            /\ pc' = "loop"
            /\ UNCHANGED <<stderr, exitCode>>
    /\ UNCHANGED <<fs, content, tree, checked, stdout>>

\* LoopStep leaving the loop at the first missing file.
LoopStep_break ==
    /\ pc = "loop"
    /\ elems # <<>>
    /\ LET file_el == Head(elems) IN
         IF file_el.text = None
         THEN /\ UNCHANGED <<missing, checked>>
              /\ elems' = Tail(elems)
         ELSE LET fname == Strip(file_el.text)
                  path  == PathJoin(BaseDir, fname)
              IN /\ checked' = Append(checked,
                                      [fname |-> fname, path |-> path,
                                       found |-> Exists(path)])
                 /\ missing' = IF ~Exists(path)
                               THEN Append(missing, fname) ELSE missing
                 /\ elems' = IF ~Exists(path) THEN <<>> ELSE Tail(elems)
    /\ UNCHANGED <<fs, content, tree, pc, root, stdout, stderr, exitCode>>

\* LoopStep using the text of the element untrimmed.
LoopStep_nostrip ==
    /\ pc = "loop"
    /\ elems # <<>>
    /\ LET file_el == Head(elems) IN
         IF file_el.text = None
         THEN UNCHANGED <<missing, checked>>
         ELSE LET fname == file_el.text
                  path  == PathJoin(BaseDir, fname)
              IN /\ checked' = Append(checked,
                                      [fname |-> fname, path |-> path,
                                       found |-> Exists(path)])
                 /\ missing' = IF ~Exists(path)
                               THEN Append(missing, fname) ELSE missing
    /\ elems' = Tail(elems)
    /\ UNCHANGED <<fs, content, tree, pc, root, stdout, stderr, exitCode>>

\* One iteration of `for file_el in root.findall('.//file')`.
LoopStep ==
    /\ pc = "loop"
    /\ elems # <<>>
    /\ LET file_el == Head(elems) IN
         IF file_el.text = None
         THEN UNCHANGED <<missing, checked>>
         ELSE LET fname == Strip(file_el.text)
                  path  == PathJoin(BaseDir, fname)
              IN /\ checked' = Append(checked,
                                      [fname |-> fname, path |-> path,
                                       found |-> Exists(path)])
                 /\ missing' = IF ~Exists(path)
                               THEN Append(missing, fname) ELSE missing
    /\ elems' = Tail(elems)
    /\ UNCHANGED <<fs, content, tree, pc, root, stdout, stderr, exitCode>>

\* ReportMissing leaving with the code of a manifest failure.
ReportMissing_exit1 ==
    /\ pc = "loop"
    /\ elems = <<>>
    /\ missing # <<>>
    /\ stdout' = stdout \o <<PrintLine(<< <<"Missing resource files:">> >>)>>
                   \o [i \in 1..Len(missing) |->
                         PrintLine(<< <<" ", "-">>, missing[i] >>)]
    /\ Exit(1)
    /\ UNCHANGED <<fs, content, tree, root, elems, missing, checked, stderr>>

\* ReportMissing without its header line.
ReportMissing_noHeader ==
    /\ pc = "loop"
    /\ elems = <<>>
    /\ missing # <<>>
    /\ stdout' = stdout \o [i \in 1..Len(missing) |->
                              PrintLine(<< <<" ", "-">>, missing[i] >>)]
    /\ Exit(2)
    /\ UNCHANGED <<fs, content, tree, root, elems, missing, checked, stderr>>

\* if missing: print the header and one line per name; sys.exit(2)
ReportMissing ==
    /\ pc = "loop"
    /\ elems = <<>>
    /\ missing # <<>>
    /\ stdout' = stdout \o <<PrintLine(<< <<"Missing resource files:">> >>)>>
                   \o [i \in 1..Len(missing) |->
                         PrintLine(<< <<" ", "-">>, missing[i] >>)]
    /\ Exit(2)
    /\ UNCHANGED <<fs, content, tree, root, elems, missing, checked, stderr>>

\* ReportSuccess writing its message to the error stream.
ReportSuccess_stderr ==
    /\ pc = "loop"
    /\ elems = <<>>
    /\ missing = <<>>
    /\ stderr' = Append(stderr,
                   PrintLine(<< <<"All referenced resource files exist.">> >>))
    /\ Exit(0)
    /\ UNCHANGED <<fs, content, tree, root, elems, missing, checked, stdout>>

\* print('All referenced resource files exist.'); sys.exit(0)
ReportSuccess ==
    /\ pc = "loop"
    /\ elems = <<>>
    /\ missing = <<>>
    /\ stdout' = Append(stdout,
                   PrintLine(<< <<"All referenced resource files exist.">> >>))
    /\ Exit(0)
    /\ UNCHANGED <<fs, content, tree, root, elems, missing, checked, stderr>>

Next ==
    \/ CheckManifest
    \/ ParseManifest
    \/ LoopStep
    \/ ReportMissing
    \/ ReportSuccess

Spec == Init /\ [][Next]_vars

\* The interpreter runs the script to its end: a step that can be taken is
\* taken.
FairSpec == Spec /\ WF_vars(Next)

TypeOK ==
    /\ pc \in {"start", "parse", "loop", "done"}
    /\ exitCode \in {-1, 0, 1, 2}

\* ------------------------------------------------- vocabulary of the claims
\* The manifest is found and parses.
ManifestOK == XML_PATH \in fs /\ content = "ok"

\* The traversal is over: the report is due or the run has ended.
Traversed == (pc = "loop" /\ elems = <<>>) \/ (pc = "done" /\ ManifestOK)

\* Positions, in document order, of the `file` elements below the root that
\* carry text.
FileIdx ==
    { i \in 2..Len(tree) : tree[i].tag = "file" /\ tree[i].text # None }

\* Text made of whitespace only.
IsBlank(t) == \A k \in 1..Len(t) : t[k] \in Whitespace

\* The referenced filename of element i.
NameAt(i) == Strip(tree[i].text)

\* The path a referenced filename designates: the filename under the base
\* directory, or the filename itself when it is absolute.
ReferencedPath(name) ==
    IF name # <<>> /\ name[1] = Sep THEN name ELSE BaseDirPath \o name

AllPresent == \A i \in FileIdx : ReferencedPath(NameAt(i)) \in fs

\* The referenced filenames among the first k elements whose path does not
\* exist, in document order.
RECURSIVE ExpectedMissing(_)
ExpectedMissing(k) ==
    IF k <= 1 THEN <<>>
    ELSE IF k \in FileIdx /\ ReferencedPath(NameAt(k)) \notin fs
         THEN Append(ExpectedMissing(k - 1), NameAt(k))
         ELSE ExpectedMissing(k - 1)

SuccessLine == <<"All referenced resource files exist.">>

HeaderLine == <<"Missing resource files:">>

Contains(line, token) == \E k \in 1..Len(line) : line[k] = token

\* ------------------------------------------------------------------ claims
\* C1: every run ends with exactly one exit code among 0, 1 and 2: 0 exactly
\* when the manifest is found and parsed and every referenced file is
\* present, 1 exactly when the manifest is absent or unparsable, 2 exactly
\* when the manifest parsed and some referenced file is absent; an ended run
\* keeps its exit code.
ExitCodeContract ==
    pc = "done" =>
        /\ exitCode \in {0, 1, 2}
        /\ exitCode = 0 <=> (ManifestOK /\ AllPresent)
        /\ exitCode = 1 <=> ~ManifestOK
        /\ exitCode = 2 <=> (ManifestOK /\ ~AllPresent)

C1_ExitCodes ==
    /\ []ExitCodeContract
    /\ [][exitCode # -1 => exitCode' = exitCode]_vars
    /\ <>(pc = "done")

C1_Witness ==
    /\ pc = "done" /\ exitCode = 2
    /\ ManifestOK /\ ~AllPresent
    /\ \E i \in FileIdx : ReferencedPath(NameAt(i)) \in fs

\* C2: when the manifest does not exist or cannot be parsed, the run exits
\* with code 1 and has written one diagnostic line to the error stream; for
\* a parse failure the line carries the description of the failure.
C2_ManifestFailure ==
    (pc = "done" /\ ~ManifestOK) =>
        /\ exitCode = 1
        /\ Len(stderr) = 1
        /\ SubSeq(stderr[1], 2, 1 + Len(XML_PATH)) = XML_PATH
        /\ content = "absent" => Contains(stderr[1], " not found")
        /\ content = "malformed" => Contains(stderr[1], "ParseError")
        /\ content = "unreadable" => Contains(stderr[1], "OSError")

C2_Witness ==
    /\ pc = "done" /\ content = "malformed"
    /\ exitCode = 1 /\ Len(stderr) = 1

\* C3: when the manifest parsed and every referenced file exists (zero
\* `file` elements included), the run exits with code 0 and standard output
\* is the success message alone, with no missing-files report.
C3_Success ==
    (pc = "done" /\ ManifestOK /\ AllPresent) =>
        /\ exitCode = 0
        /\ stdout = <<SuccessLine>>
        /\ stderr = <<>>

C3_Witness ==
    /\ pc = "done" /\ ManifestOK /\ AllPresent
    /\ Cardinality(FileIdx) = 2
    /\ \A i \in FileIdx : ~IsBlank(tree[i].text)
    /\ stdout = <<SuccessLine>>

\* C4: once the traversal is over, the missing list is exactly the
\* referenced filenames whose path does not exist, in document order and
\* once per reference, and a run that reports prints one line per entry of
\* that list in the same order.
C4_MissingList ==
    Traversed =>
        /\ missing = ExpectedMissing(Len(tree))
        /\ (pc = "done" /\ missing # <<>>) =>
              /\ Len(stdout) = 1 + Len(missing)
              /\ \A k \in 1..Len(missing) :
                    LET line == stdout[k + 1] IN
                      /\ Len(line) >= Len(missing[k])
                      /\ SubSeq(line, Len(line) - Len(missing[k]) + 1,
                                Len(line)) = missing[k]

C4_Witness ==
    /\ pc = "done" /\ exitCode = 2
    /\ Len(missing) = 2
    /\ missing[1] = missing[2]
    /\ Len(stdout) = 3

\* C5 (as stated): with a non-empty missing list, standard output is the
\* header line followed by one line "- " + filename per missing filename,
\* and the exit code is 2.
C5_BulletHyphenSpace ==
    (pc = "done" /\ missing # <<>>) =>
        /\ exitCode = 2
        /\ stdout = <<HeaderLine>> \o
                      [k \in 1..Len(missing) |-> <<"-", " ">> \o missing[k]]

\* C5 (amended): with a non-empty missing list, standard output is the
\* header line followed by one line " - " + filename (space, hyphen, space,
\* filename) per missing filename, the success message is not printed, and
\* the exit code is 2.
C5_Report ==
    (pc = "done" /\ missing # <<>>) =>
        /\ exitCode = 2
        /\ stdout = <<HeaderLine>> \o
                      [k \in 1..Len(missing) |->
                         <<" ", "-", " ">> \o missing[k]]
        /\ \A k \in 1..Len(stdout) : stdout[k] # SuccessLine

C5_Witness ==
    /\ pc = "done" /\ exitCode = 2
    /\ missing = << <<"b">>, <<"a">> >>
    /\ stdout[3] = <<" ", "-", " ", "a">>

\* C6 (as stated): a `file` element whose text is empty or whitespace only
\* is skipped with no existence check: no check is ever made for an empty
\* filename.
C6_NoCheckForBlank ==
    \A k \in 1..Len(checked) : checked[k].fname # <<>>

\* C6 (amended): a `file` element with no text is skipped with no existence
\* check; a `file` element whose text is whitespace only is checked against
\* the base directory itself (resources/), which exists whenever the
\* manifest was parsed, so it never enters the missing list and the exit
\* code is decided by the elements with non-blank text alone.
C6_BlankHarmless ==
    /\ \A k \in 1..Len(checked) :
          checked[k].fname = <<>> =>
              checked[k].path = BaseDirPath /\ checked[k].found
    /\ \A k \in 1..Len(missing) : missing[k] # <<>>
    /\ Traversed =>
          Len(checked) =
              Cardinality({ i \in 2..Len(tree) :
                              tree[i].tag = "file" /\ tree[i].text # None })
    /\ (pc = "done" /\ ManifestOK) =>
          (exitCode = 2 <=>
              \E i \in FileIdx : /\ ~IsBlank(tree[i].text)
                                 /\ ReferencedPath(NameAt(i)) \notin fs)

C6_Witness ==
    /\ pc = "done" /\ exitCode = 0
    /\ \E i \in 2..Len(tree) : tree[i].tag = "file" /\ tree[i].text = None
    /\ \E i \in FileIdx : IsBlank(tree[i].text)
    /\ Len(checked) = 1 /\ checked[1].path = BaseDirPath

\* C7 (as stated): every `file` element with text is checked, the root
\* element included: after the traversal there is one check per `file`
\* element with text of the whole tree.
C7_RootIncluded ==
    Traversed =>
        \A i \in 1..Len(tree) :
            (tree[i].tag = "file" /\ tree[i].text # None) =>
                \E k \in 1..Len(checked) :
                    checked[k].fname = Strip(tree[i].text)

\* C7 (amended): every `file` element with text that lies below the root
\* element is checked, at any nesting depth; the root element itself is
\* never matched, so a root `file` element is not checked.
C7_Descendants ==
    Traversed =>
        /\ \A i \in 2..Len(tree) :
              (tree[i].tag = "file" /\ tree[i].text # None) =>
                  \E k \in 1..Len(checked) :
                      checked[k].fname = Strip(tree[i].text)
        /\ Len(checked) = Cardinality(FileIdx)

C7_Witness ==
    /\ pc = "done" /\ ManifestOK
    /\ tree[1].tag = "file" /\ tree[1].text = <<"b">>
    /\ \E i \in FileIdx : tree[i].depth = 2 /\ tree[i].text = <<"a">>
    /\ Len(checked) = 1 /\ checked[1].fname = <<"a">>

\* C8: no step of a run changes the filesystem or the manifest: the only
\* effects are lines on standard output or the error stream and the exit
\* code.
C8_ReadOnly ==
    [][fs' = fs /\ content' = content /\ tree' = tree]_vars

C8_Witness ==
    /\ pc = "done" /\ exitCode = 2
    /\ Len(checked) = 2
    /\ ~checked[1].found /\ checked[2].found

\* C9: when the manifest is absent or unparsable no existence check of a
\* referenced file is made and nothing is written to standard output; in
\* every run the checks of referenced files happen only after the manifest
\* was found and parsed.
C9_FailFast ==
    /\ ~ManifestOK => (checked = <<>> /\ stdout = <<>> /\ missing = <<>>)
    /\ pc \in {"start", "parse"} => (checked = <<>> /\ stdout = <<>>)
    /\ checked # <<>> => (ManifestOK /\ root = tree)

C9_Witness ==
    /\ pc = "done" /\ content = "unreadable"
    /\ BaseDirPath \o <<"a">> \notin fs
    /\ checked = <<>> /\ stdout = <<>>

\* C10 (as stated): for every referenced filename, absolute ones included,
\* the path tested is resources/<filename>, and the filename is reported
\* missing exactly when resources/<filename> does not exist.
C10_AlwaysUnderBase ==
    /\ \A k \in 1..Len(checked) :
          checked[k].path = BaseDirPath \o checked[k].fname
    /\ Traversed =>
          \A i \in FileIdx :
              (BaseDirPath \o NameAt(i) \notin fs)
                  <=> (\E k \in 1..Len(missing) : missing[k] = NameAt(i))

\* C10 (amended): for every referenced filename that does not begin with a
\* path separator the path tested is resources/<filename>; for a filename
\* that begins with a path separator the base directory is dropped and the
\* path tested is the filename itself; a filename is reported missing
\* exactly when the path tested does not exist.
C10_TestedPath ==
    /\ \A k \in 1..Len(checked) :
          LET c == checked[k] IN
            /\ c.path = IF c.fname # <<>> /\ c.fname[1] = Sep
                        THEN c.fname
                        ELSE <<"resources", "/">> \o c.fname
            /\ c.found <=> c.path \in fs
    /\ Traversed =>
          \A k \in 1..Len(checked) :
              ~checked[k].found
                  <=> (\E j \in 1..Len(missing) : missing[j] = checked[k].fname)

C10_Witness ==
    /\ pc = "done"
    /\ Len(checked) = 2
    /\ checked[1].fname = <<"/", "a">> /\ checked[1].path = <<"/", "a">>
    /\ ~checked[1].found
    /\ checked[2].fname = <<"a">> /\ checked[2].found
====
